---- MODULE Spec2Model ----
(***************************************************************************)
(* A model of the token lifecycle of dihedron/go-openstack: the            *)
(* Authenticator (Login, Logout, GetToken, GetCatalog, the re-             *)
(* authentication timer and its goroutine), the Identity v3 CreateToken    *)
(* call and the generic API invoker it goes through.                       *)
(*                                                                         *)
(* The repository holds several revisions of the same files.  The          *)
(* Authenticator is modelled in the three revisions that have a mutex:     *)
(*   "A"  src/openstack/types.go:281-462         (tokenValue / tokenInfo)  *)
(*   "B"  src/openstack/authenticator.go:103-333 (timer commented out)     *)
(*   "C"  src/openstack/authenticator.go:335-564 (timer re-enabled)        *)
(* The variable rev says which revision a behaviour runs.                  *)
(***************************************************************************)
EXTENDS Integers, Sequences, FiniteSets, TLC

(***************************************************************************)
(* Go values.  A pointer is nil or points to a value; String() and Bool()  *)
(* box a value (src/openstack/types.go:234, 248).  A Go string is a        *)
(* sequence of characters.                                                 *)
(***************************************************************************)
NilPtr == [isNil |-> TRUE]

Ptr(v) == [isNil |-> FALSE, val |-> v]

String(s) == Ptr(s)

Bool(b) == Ptr(b)

IsNil(p) == p.isNil

RECURSIVE TrimLeft(_)
TrimLeft(s) ==
    IF s = <<>> THEN s
    ELSE IF Head(s) = " " THEN TrimLeft(Tail(s)) ELSE s

RECURSIVE TrimRight(_)
TrimRight(s) ==
    IF s = <<>> THEN s
    ELSE IF s[Len(s)] = " " THEN TrimRight(SubSeq(s, 1, Len(s) - 1)) ELSE s

\* strings.TrimSpace
TrimSpace(s) == TrimRight(TrimLeft(s))

\* the test `p != nil && len(strings.TrimSpace(*p)) > 0`
NonBlank(p) == ~IsNil(p) /\ Len(TrimSpace(p.val)) > 0

\* the test `p != nil && len(*p) > 0`
NonEmpty(p) == ~IsNil(p) /\ Len(p.val) > 0

\* the result of a call that may panic
Panic(why) == [panic |-> TRUE, why |-> why]

Ok(v) == [panic |-> FALSE, val |-> v]

\* s[lo:hi] of Go (0-based, hi exclusive); out of range panics
Slice(s, lo, hi) ==
    IF lo < 0 \/ hi > Len(s) \/ lo > hi
    THEN Panic("slice bounds out of range")
    ELSE Ok(SubSeq(s, lo + 1, hi))

Dots == <<".", ".", ".">>

ZipMiddle(s, head, tail) ==
    LET h == Slice(s, 0, head)
        t == Slice(s, Len(s) - tail, Len(s))
    IN  IF h.panic THEN h
        ELSE IF t.panic THEN t
        ELSE Ok(h.val \o Dots \o t.val)

ZipString(s, length) ==
    IF length <= 2 THEN Ok(<<>>)
    ELSE IF length = 3 THEN Ok(Dots)
    ELSE IF length % 2 = 1
         THEN ZipMiddle(s, (length - 3) \div 2, (length - 3) \div 2)
         ELSE ZipMiddle(s, ((length - 3) + 1) \div 2, ((length - 3) - 1) \div 2)

\* the lengths Login and Logout pass to ZipString
LoginZipLength == 10

LogoutZipLength == 16

(***************************************************************************)
(* Login options and the CreateTokenOptions Login derives from them        *)
(* (revision C).                                                           *)
(***************************************************************************)
ScopeOf(o) ==
    [ScopeProjectID   |-> o.ScopeProjectID,
     ScopeProjectName |-> o.ScopeProjectName,
     ScopeDomainID    |-> o.ScopeDomainID,
     ScopeDomainName  |-> o.ScopeDomainName,
     Unscoped         |-> o.UnscopedLogin]

NoCredentials ==
    [TokenID |-> NilPtr, UserID |-> NilPtr, UserName |-> NilPtr,
     UserDomainID |-> NilPtr, UserDomainName |-> NilPtr,
     UserPassword |-> NilPtr, Secret |-> NilPtr, AppCredentialID |-> NilPtr]

CommonOptions(opts) ==
    [ScopeProjectID   |-> opts.ScopeProjectID,
     ScopeProjectName |-> opts.ScopeProjectName,
     ScopeDomainID    |-> opts.ScopeDomainID,
     ScopeDomainName  |-> opts.ScopeDomainName,
     UnscopedToken    |-> opts.UnscopedLogin,
     NoCatalog        |-> Bool(FALSE),
     Authenticated    |-> FALSE]

Merge(a, b) == [k \in (DOMAIN a) \cup (DOMAIN b) |-> IF k \in DOMAIN b THEN b[k] ELSE a[k]]

\* the branch Login takes
LoginUsesPasswordFirst(opts) ==
    IF NonBlank(opts.UserPassword) THEN "password"
    ELSE IF NonBlank(opts.TokenID) THEN "token"
    ELSE IF NonBlank(opts.AppCredentialID) /\ NonBlank(opts.Secret)
         THEN "application_credential"
    ELSE "none"

LoginMethod(opts) ==
    IF NonBlank(opts.TokenID) THEN "token"
    ELSE IF NonBlank(opts.UserPassword) THEN "password"
    ELSE IF NonBlank(opts.AppCredentialID) /\ NonBlank(opts.Secret)
         THEN "application_credential"
    ELSE "none"

\* the cto pointer Login passes to CreateToken
LoginCreateTokenOptions(opts) ==
    LET m == LoginMethod(opts)
        base == Merge(NoCredentials, CommonOptions(opts))
    IN  IF m = "token"
        THEN Ptr(Merge(base, [TokenID |-> opts.TokenID]))
        ELSE IF m = "password"
        THEN Ptr(Merge(base, [UserName       |-> opts.UserName,
                              UserDomainName |-> opts.UserDomainName,
                              UserPassword   |-> opts.UserPassword]))
        ELSE IF m = "application_credential"
        THEN Ptr(Merge(base, [UserName        |-> opts.UserName,
                              UserDomainName  |-> opts.UserDomainName,
                              AppCredentialID |-> opts.AppCredentialID,
                              Secret          |-> opts.Secret]))
        ELSE NilPtr

\* the arguments of the branch's log.Debugf are evaluated before the call
LoginDebug(opts) ==
    LET m == LoginMethod(opts)
    IN  IF m = "token"
        THEN ZipString(opts.TokenID.val, LoginZipLength)
        ELSE IF m = "password" /\ (IsNil(opts.UserDomainName) \/ IsNil(opts.UserName))
        THEN Panic("nil pointer dereference")
        ELSE Ok(<<>>)

(***************************************************************************)
(* CreateToken (revision of src/openstack/identity_v3_apis.go): the        *)
(* request entity.                                                         *)
(***************************************************************************)
NoIdentity == [Methods |-> <<>>, Password |-> NilPtr, Token |-> NilPtr, AppCredential |-> NilPtr]

CreateTokenIdentity(o) ==
    IF NonEmpty(o.UserPassword)
    THEN Ptr(Merge(NoIdentity,
            [Methods  |-> <<"password">>,
             Password |-> Ptr([User |-> [ID |-> o.UserID, Name |-> o.UserName,
                                         Password |-> o.UserPassword,
                                         Domain |-> [ID |-> o.UserDomainID,
                                                     Name |-> o.UserDomainName]]])]))
    ELSE IF NonEmpty(o.TokenID)
    THEN Ptr(Merge(NoIdentity,
            [Methods |-> <<"token">>,
             Token   |-> Ptr([ID |-> o.TokenID])]))
    ELSE IF NonEmpty(o.AppCredentialID)
    THEN Ptr(Merge(NoIdentity,
            [Methods       |-> <<"application_credential">>,
             AppCredential |-> Ptr([ID |-> o.AppCredentialID,
                                    User |-> [ID |-> o.UserID, Name |-> o.UserName,
                                              Domain |-> [ID |-> o.UserDomainID,
                                                          Name |-> o.UserDomainName]]])]))
    ELSE NilPtr

NoScope == [kind |-> "none"]

\* the scope with the domain of a project put beside the project
ScopeWithDomainBesideProject(o) ==
    IF NonBlank(o.ScopeProjectID)
    THEN [kind |-> "scope", Project |-> Ptr([ID |-> o.ScopeProjectID, Name |-> NilPtr, Domain |-> NilPtr]),
          Domain |-> NilPtr]
    ELSE IF NonBlank(o.ScopeProjectName)
    THEN [kind |-> "scope",
          Project |-> Ptr([ID |-> NilPtr, Name |-> o.ScopeProjectName, Domain |-> NilPtr]),
          Domain |-> IF NonBlank(o.ScopeDomainID)
                     THEN Ptr([ID |-> o.ScopeDomainID, Name |-> NilPtr])
                     ELSE Ptr([ID |-> NilPtr, Name |-> o.ScopeDomainName])]
    ELSE IF NonBlank(o.ScopeDomainID)
    THEN [kind |-> "scope", Project |-> NilPtr, Domain |-> Ptr([ID |-> o.ScopeDomainID, Name |-> NilPtr])]
    ELSE IF NonBlank(o.ScopeDomainName)
    THEN [kind |-> "scope", Project |-> NilPtr, Domain |-> Ptr([ID |-> NilPtr, Name |-> o.ScopeDomainName])]
    ELSE IF ~IsNil(o.UnscopedToken) /\ o.UnscopedToken.val
    THEN [kind |-> "unscoped"]
    ELSE NoScope

initCreateTokenOptionsScope(o) ==
    IF NonBlank(o.ScopeProjectID)
    THEN [kind |-> "scope", Project |-> Ptr([ID |-> o.ScopeProjectID, Name |-> NilPtr, Domain |-> NilPtr]),
          Domain |-> NilPtr]
    ELSE IF NonBlank(o.ScopeProjectName)
    THEN [kind |-> "scope",
          Project |-> Ptr([ID |-> NilPtr, Name |-> o.ScopeProjectName,
                           Domain |-> IF NonBlank(o.ScopeDomainID)
                                      THEN Ptr([ID |-> o.ScopeDomainID, Name |-> NilPtr])
                                      ELSE Ptr([ID |-> NilPtr, Name |-> o.ScopeDomainName])]),
          Domain |-> NilPtr]
    ELSE IF NonBlank(o.ScopeDomainID)
    THEN [kind |-> "scope", Project |-> NilPtr, Domain |-> Ptr([ID |-> o.ScopeDomainID, Name |-> NilPtr])]
    ELSE IF NonBlank(o.ScopeDomainName)
    THEN [kind |-> "scope", Project |-> NilPtr, Domain |-> Ptr([ID |-> NilPtr, Name |-> o.ScopeDomainName])]
    ELSE IF ~IsNil(o.UnscopedToken) /\ o.UnscopedToken.val
    THEN [kind |-> "unscoped"]
    ELSE NoScope

\* the input struct CreateToken hands to Invoke, or the panic that stops it
CreateTokenInput(cto) ==
    IF IsNil(cto) THEN Panic("nil pointer dereference")
    ELSE LET o == cto.val
             id == CreateTokenIdentity(o)
         IN  IF IsNil(id) THEN Panic("nil pointer dereference")
             ELSE Ok([NoCatalog |-> o.NoCatalog,
                      Auth |-> [Identity |-> id.val,
                                Scope |-> initCreateTokenOptionsScope(o)],
                      authenticated |-> o.Authenticated])

(***************************************************************************)
(* The generic invoker (src/openstack/api.go:230-438) and the results it   *)
(* returns (src/unnamed/part_011).                                         *)
(*                                                                         *)
(* An HTTP response is [StatusCode, SubjectToken, Body]: SubjectToken is   *)
(* the X-Subject-Token header (NilPtr when the header is absent) and Body  *)
(* says what the payload is:                                               *)
(*   [kind |-> "token", ExpiresAt |-> p]  a token entity                   *)
(*   [kind |-> "error"]      a well-formed error entity                    *)
(*   [kind |-> "empty"]      no payload                                    *)
(*   [kind |-> "syntaxerr"]  a payload that is not JSON                    *)
(*   [kind |-> "typeerr", ExpiresAt |-> p] a token entity one of whose     *)
(*                           members has the wrong JSON type               *)
(*   [kind |-> "readerr"]    the body cannot be read                       *)
(***************************************************************************)
KnownStatusCodes == {200, 201, 204, 400, 401, 403, 404, 405, 409, 413, 415, 503}

NewResult(response) ==
    [Code |-> IF response.StatusCode \in KnownStatusCodes THEN response.StatusCode ELSE 0,
     OK   |-> FALSE]

ErrNoToken == "no valid token for authenticated call"

ErrRead == "error reading response"

ErrDecode == "error decoding response"

ErrSend == "error sending request"

NoError == "nil"

\* http.Header.Get: "" when the header is absent
HeaderGet(response) ==
    IF IsNil(response.SubjectToken) THEN <<>> ELSE response.SubjectToken.val

\* the struct CreateToken passes as output, before the call
EmptyOutput == [SubjectToken |-> NilPtr, Token |-> NilPtr]

TokenEntity(body) == [ExpiresAt |-> body.ExpiresAt, Value |-> NilPtr]

\* HandleResponse with a struct for output: [result, err, output]
HandleResponseStruct(response, output) ==
    IF response.Body.kind = "readerr"
    THEN [result |-> NilPtr, err |-> ErrRead, output |-> output]
    ELSE LET withHeader == [output EXCEPT !.SubjectToken = String(HeaderGet(response))]
             k == response.Body.kind
         IN  IF k = "empty"
             THEN [result |-> Ptr(NewResult(response)), err |-> NoError, output |-> withHeader]
             ELSE IF k = "syntaxerr"
             THEN [result |-> Ptr(NewResult(response)), err |-> ErrDecode, output |-> withHeader]
             ELSE IF k = "typeerr"
             THEN [result |-> Ptr(NewResult(response)), err |-> ErrDecode,
                   output |-> [withHeader EXCEPT !.Token = Ptr(TokenEntity(response.Body))]]
             ELSE IF k = "token"
             THEN [result |-> Ptr(NewResult(response)), err |-> NoError,
                   output |-> [withHeader EXCEPT !.Token = Ptr(TokenEntity(response.Body))]]
             ELSE [result |-> Ptr(NewResult(response)), err |-> NoError, output |-> withHeader]

\* HandleResponse with a *string (or nil) for output: the struct is not touched
HandleResponseOther(response, output) ==
    IF response.Body.kind = "readerr"
    THEN [result |-> NilPtr, err |-> ErrRead, output |-> output]
    ELSE [result |-> Ptr(NewResult(response)), err |-> NoError, output |-> output]

\* StatusCodeIn(values...)
StatusCodeIn(values, response) == response.StatusCode \in values

\* Invoke after a response has come back: the checker, then HandleResponse
InvokeResponse(values, response, output) ==
    IF StatusCodeIn(values, response)
    THEN LET h == HandleResponseStruct(response, output)
         IN  IF IsNil(h.result) THEN Panic("nil pointer dereference")
             ELSE Ok([h EXCEPT !.result = Ptr([h.result.val EXCEPT !.OK = TRUE])])
    ELSE Ok(HandleResponseOther(response, output))

\* Invoke when PrepareRequest or HTTPClient.Do fails
InvokeError(err) == Ok([result |-> NilPtr, err |-> err, output |-> EmptyOutput])

\* PrepareRequest's token test on the token GetToken returned (a token that
\* is there is given as a pointer to [Value |-> p])
PrepareRequestRefuses(authenticated, token) ==
    authenticated /\ (IsNil(token) \/ IsNil(token.val.Value))

(***************************************************************************)
(* CreateToken after Invoke (identity_v3_apis.go:121-126).                 *)
(***************************************************************************)
CreateTokenKeepsValueUnset(inv) ==
    IF inv.panic THEN inv
    ELSE IF IsNil(inv.val.result) THEN Panic("nil pointer dereference")
    ELSE IF ~IsNil(inv.val.output.SubjectToken) /\ IsNil(inv.val.output.Token)
         THEN Panic("nil pointer dereference")
    ELSE Ok([token |-> inv.val.output.Token, result |-> inv.val.result, err |-> inv.val.err])

CreateTokenReturn(inv) ==
    IF inv.panic THEN inv
    ELSE IF IsNil(inv.val.result) THEN Panic("nil pointer dereference")
    ELSE LET out == inv.val.output
         IN  IF IsNil(out.SubjectToken)
             THEN Ok([token |-> out.Token, result |-> inv.val.result, err |-> inv.val.err])
             ELSE IF IsNil(out.Token) THEN Panic("nil pointer dereference")
             ELSE Ok([token  |-> Ptr([out.Token.val EXCEPT !.Value = out.SubjectToken]),
                      result |-> inv.val.result,
                      err    |-> inv.val.err])

CreateTokenSuccessCodes == {201}

(***************************************************************************)
(* Login after CreateToken has returned (authenticator.go:474-505): the    *)
(* error is returned, or the token is logged (a nil token or a nil Value   *)
(* panics) and then stored; the timer is armed when ExpiresAt is there and *)
(* parses.                                                                 *)
(***************************************************************************)
ExpiryParses(token) == ~IsNil(token.ExpiresAt) /\ token.ExpiresAt.val.parses

LoginAfterCreateToken(ret) ==
    IF ret.panic THEN ret
    ELSE IF ret.val.err # NoError THEN Ok([outcome |-> "error", err |-> ret.val.err])
    ELSE IF IsNil(ret.val.token) THEN Panic("nil pointer dereference")
    ELSE IF IsNil(ret.val.token.val.Value) THEN Panic("nil pointer dereference")
    ELSE Ok([outcome  |-> "store",
             token    |-> ret.val.token.val,
             armTimer |-> ExpiryParses(ret.val.token.val)])

(***************************************************************************)
(* State.                                                                  *)
(*   rev        the revision of the Authenticator that runs                *)
(*   heap       the Token objects (by id): Value set or nil, and the       *)
(*              seconds left until ExpiresAt                               *)
(*   authToken  auth.token (0 is nil); in revision A auth.tokenValue and   *)
(*              auth.tokenInfo, which are always set together              *)
(*   authTimer  auth.timer (0 is nil)                                      *)
(*   timers     the time.Timer objects (by id)                             *)
(*   writer, readers   who holds auth.mutex                                *)
(*   pc, loc    each goroutine's position and locals                       *)
(*   userLogins the number of Login calls the callers have made            *)
(*   panicked   the panic that ended the program ("" while it runs)        *)
(*   hist       what has happened so far, for the properties: an access to *)
(*              auth.token without the mutex (unguarded), a Logout has     *)
(*              returned and no caller has called Login since (loggedOut), *)
(*              the identity service has answered a token request with     *)
(*              anything but a token (refused), PrepareRequest has refused *)
(*              an authenticated call for lack of a token (apiRefused) and *)
(*              the error the wrapper then returned (apiError)             *)
(*   fn         one call of Login or CreateToken followed step by step     *)
(***************************************************************************)
VARIABLES rev, heap, authToken, authTimer, timers, writer, readers, pc, loc,
          userLogins, panicked, hist, fn

authVars == <<rev, heap, authToken, authTimer, timers, writer, readers, pc, loc,
              userLogins, panicked, hist>>

vars == <<rev, heap, authToken, authTimer, timers, writer, readers, pc, loc,
          userLogins, panicked, hist, fn>>

(***************************************************************************)
(* One call of CreateToken, and one call of Login, on arbitrary options    *)
(* and an arbitrary answer of the identity service.                        *)
(***************************************************************************)
SampleToken == <<"g", "A", "A", "A", "A", "A", "B">>

ShortToken == <<"a", "b">>

Blank == <<" ">>

SamplePassword == <<"p", "w">>

SampleName == <<"n">>

SampleExpiry == [parses |-> TRUE, in |-> 3600]

BadExpiry == [parses |-> FALSE, in |-> 0]

Bodies ==
    {[kind |-> "token", ExpiresAt |-> e] : e \in {NilPtr, Ptr(SampleExpiry), Ptr(BadExpiry)}}
    \cup {[kind |-> "typeerr", ExpiresAt |-> NilPtr]}
    \cup {[kind |-> k] : k \in {"error", "empty", "syntaxerr", "readerr"}}

Responses ==
    [StatusCode   : {200, 201, 401},
     SubjectToken : {NilPtr, String(SampleToken)},
     Body         : Bodies]

\* what HTTPClient.Do gives back: an error or a response
Answers == {[sent |-> FALSE]} \cup {[sent |-> TRUE, response |-> r] : r \in Responses}

ScopeChoices ==
    [ScopeProjectID   : {NilPtr, String(Blank), String(SampleName)},
     ScopeProjectName : {NilPtr, String(SampleName)},
     ScopeDomainID    : {NilPtr, String(SampleName)},
     ScopeDomainName  : {NilPtr, String(SampleName)},
     Unscoped         : {NilPtr, Bool(TRUE), Bool(FALSE)}]

CreateTokenOptionsChoices ==
    {Merge(NoCredentials,
           [TokenID          |-> t,
            UserPassword     |-> pw,
            AppCredentialID  |-> ac,
            UserName         |-> String(SampleName),
            UserDomainName   |-> String(SampleName),
            ScopeProjectID   |-> sc.ScopeProjectID,
            ScopeProjectName |-> sc.ScopeProjectName,
            ScopeDomainID    |-> sc.ScopeDomainID,
            ScopeDomainName  |-> sc.ScopeDomainName,
            UnscopedToken    |-> sc.Unscoped,
            NoCatalog        |-> NilPtr,
            Authenticated    |-> a]) :
        t  \in {NilPtr, String(<<>>), String(SampleToken)},
        pw \in {NilPtr, String(Blank), String(SamplePassword)},
        ac \in {NilPtr, String(SampleName)},
        sc \in ScopeChoices,
        a  \in BOOLEAN}

LoginOptionsChoices ==
    [TokenID          : {NilPtr, String(Blank), String(ShortToken), String(SampleToken)},
     UserPassword     : {NilPtr, String(Blank), String(SamplePassword)},
     AppCredentialID  : {NilPtr, String(Blank), String(SampleName)},
     Secret           : {NilPtr, String(SampleName)},
     UserName         : {NilPtr, String(SampleName)},
     UserDomainID     : {NilPtr},
     UserDomainName   : {NilPtr, String(SampleName)},
     ScopeProjectID   : {NilPtr},
     ScopeProjectName : {NilPtr, String(SampleName)},
     ScopeDomainID    : {NilPtr},
     ScopeDomainName  : {NilPtr, String(SampleName)},
     UnscopedLogin    : {NilPtr, Bool(TRUE)}]

\* the token GetToken returns to PrepareRequest during the call
StoredChoices == {NilPtr, Ptr([Value |-> NilPtr]), Ptr([Value |-> String(SampleToken)])}

FnStart(pcv, opts, cto, stored) ==
    [pc |-> pcv, opts |-> opts, method |-> "", cto |-> cto, stored |-> stored,
     request |-> NilPtr, answer |-> [sent |-> FALSE], ret |-> NilPtr, out |-> NilPtr,
     why |-> ""]

FnPanic(why) == [fn EXCEPT !.pc = "panic", !.why = why]

\* Login up to the call of CreateToken (authenticator.go:432-474)
LoginChoose ==
    /\ fn.pc = "login"
    /\ LET opts == fn.opts.val
           dbg  == LoginDebug(opts)
       IN  fn' = IF dbg.panic
                 THEN [FnPanic(dbg.why) EXCEPT !.method = LoginMethod(opts)]
                 ELSE [fn EXCEPT !.pc = "createtoken",
                                 !.method = LoginMethod(opts),
                                 !.cto = LoginCreateTokenOptions(opts)]
    /\ UNCHANGED authVars

\* CreateToken up to the sending of the request (identity_v3_apis.go:48-121,
\* api.go:290-298, 331-343)
CreateTokenSend ==
    /\ fn.pc = "createtoken"
    /\ LET in == CreateTokenInput(fn.cto)
       IN  fn' = IF in.panic THEN FnPanic(in.why)
                 ELSE IF PrepareRequestRefuses(in.val.authenticated, fn.stored)
                 THEN LET ret == CreateTokenReturn(InvokeError(ErrNoToken))
                      IN  IF ret.panic THEN FnPanic(ret.why)
                          ELSE [fn EXCEPT !.pc = "returned", !.ret = Ptr(ret.val)]
                 ELSE [fn EXCEPT !.pc = "sent", !.request = Ptr(in.val)]
    /\ UNCHANGED authVars

\* the answer comes back and CreateToken returns (api.go:302-323,
\* identity_v3_apis.go:121-126)
CreateTokenAnswer ==
    /\ fn.pc = "sent"
    /\ \E a \in Answers :
          LET inv == IF a.sent
                     THEN InvokeResponse(CreateTokenSuccessCodes, a.response, EmptyOutput)
                     ELSE InvokeError(ErrSend)
              ret == CreateTokenReturn(inv)
          IN  fn' = IF ret.panic
                    THEN [FnPanic(ret.why) EXCEPT !.answer = a]
                    ELSE [fn EXCEPT !.pc = "returned", !.answer = a, !.ret = Ptr(ret.val)]
    /\ UNCHANGED authVars

\* Login after CreateToken (authenticator.go:474-509)
LoginFinish ==
    /\ fn.pc = "returned"
    /\ ~IsNil(fn.opts)
    /\ LET out == LoginAfterCreateToken(Ok(fn.ret.val))
       IN  fn' = IF out.panic THEN FnPanic(out.why)
                 ELSE [fn EXCEPT !.pc = "done", !.out = Ptr(out.val)]
    /\ UNCHANGED authVars

(***************************************************************************)
(* The Authenticator with its callers and its re-authentication            *)
(* goroutines.                                                             *)
(***************************************************************************)
\* caller goroutines, each calling the Authenticator's methods in a loop
NumUsers == 2

\* Login calls the callers make in one behaviour
MaxUserLogins == 2

\* the callers that take part in one behaviour plus the Login calls they make
MaxLoad == 3

Users == 1 .. NumUsers

\* every Login by a caller starts one chain of re-authentication goroutines:
\* the goroutine a timer-triggered Login starts is the next link of the chain
\* of the goroutine that made this Login, which ends as Login returns
MaxGoroutines == MaxUserLogins

Goroutines == (NumUsers + 1) .. (NumUsers + MaxGoroutines)

Procs == Users \cup Goroutines

\* ids of the Token objects a behaviour can hold at one time: the stored
\* one, one per local variable, one per TokenID captured for the timer, and
\* the one being created
TokIds == 1 .. (2 + NumUsers + 2 * MaxGoroutines)

TimerIds == 1 .. (MaxGoroutines + 1)

Revisions == {"A", "B", "C"}

\* token lifetimes (seconds) the identity service hands out: one that ends
\* before the timer of Login fires and one that ends after it, for the 30
\* seconds of revision A and for the 5 seconds of revision C
LifetimesA == {30, 60}

LifetimesC == {3, 8}

Lifetimes(r) == IF r = "A" THEN LifetimesA ELSE LifetimesC

Digits == <<"1", "2", "3", "4", "5", "6", "7", "8", "9", "a", "b", "c", "d", "e", "f", "g", "h", "i">>

\* the value (X-Subject-Token) of the token object with id i
TokenValue(i) == <<"g", "A", "A", "A", "A", "A", Digits[i]>>

NoExpiry == NilPtr

FreeToken == [ExpiresAt |-> NilPtr, Value |-> NilPtr]

FreeTimer == [rem |-> 0, state |-> "free"]

NoLocals ==
    [opts |-> NilPtr, armScope |-> NilPtr, tok |-> 0, tm |-> 0, method |-> "",
     credStored |-> FALSE, ret |-> ""]

Running == panicked = ""

Min(S) == CHOOSE x \in S : \A y \in S : x <= y

Max2(a, b) == IF a >= b THEN a ELSE b

\* the id of the token object whose value p points to (0 when there is none)
TokenOfValue(p) ==
    IF IsNil(p) THEN 0
    ELSE LET ids == {i \in TokIds : TokenValue(i) = p.val}
         IN  IF ids = {} THEN 0 ELSE CHOOSE i \in ids : TRUE

\* the token a goroutine's LoginOptions name by TokenID
CapturedToken(lq) == IF IsNil(lq.opts) THEN 0 ELSE TokenOfValue(lq.opts.val.TokenID)

\* the references to Token objects, in a fixed order: auth.token, the locals,
\* the TokenIDs
TokSeq(at, l) ==
    <<at>> \o [q \in Procs |-> l[q].tok] \o [q \in Procs |-> CapturedToken(l[q])]

\* the references to Timer objects: auth.timer, the locals
TimerSeq(atm, l) == <<atm>> \o [q \in Procs |-> l[q].tm]

Refs(R) == {R[k] : k \in DOMAIN R} \ {0}

TokRefs(at, l) == Refs(TokSeq(at, l))

TimerRefs(atm, l) == Refs(TimerSeq(atm, l))

\* Object ids and token values are names: a state is kept with its objects
\* numbered in the order of the first reference to them, and an object
\* nothing refers to is garbage.
FirstAt(R, i) == Min({k \in DOMAIN R : R[k] = i})

Rank(R, i) ==
    IF i = 0 THEN 0
    ELSE Cardinality({j \in Refs(R) : FirstAt(R, j) < FirstAt(R, i)}) + 1

Unrank(R, n) == CHOOSE i \in Refs(R) : Rank(R, i) = n

RenameToken(tok, n) ==
    [tok EXCEPT !.Value = IF IsNil(tok.Value) THEN NilPtr ELSE String(TokenValue(n))]

\* the tokens whose expiry still matters: the stored one and those a Login
\* is about to store; of the others only Value is ever read again, and the
\* time they have left is no longer followed
Followed(at, l) == ({at} \cup {l[q].tok : q \in {x \in Procs : ~IsNil(l[x].opts)}}) \ {0}

Unfollowed(tok) ==
    IF ExpiryParses(tok) THEN [tok EXCEPT !.ExpiresAt = Ptr([parses |-> TRUE, in |-> 0])]
    ELSE tok

RenameOptions(o, R) ==
    IF IsNil(o) \/ TokenOfValue(o.val.TokenID) = 0 THEN o
    ELSE Ptr([o.val EXCEPT
                !.TokenID = String(TokenValue(Rank(R, TokenOfValue(o.val.TokenID))))])

Collect(h, R, followed) ==
    [n \in TokIds |->
        IF n <= Cardinality(Refs(R))
        THEN LET i == Unrank(R, n)
             IN  RenameToken(IF i \in followed THEN h[i] ELSE Unfollowed(h[i]), n)
        ELSE FreeToken]

CollectTimers(t, R) ==
    [n \in TimerIds |-> IF n <= Cardinality(Refs(R)) THEN t[Unrank(R, n)] ELSE FreeTimer]

\* the new values of the objects and of the references to them
Objects(h, at, t, atm, l) ==
    LET R  == TokSeq(at, l)
        RT == TimerSeq(atm, l)
    IN  /\ authToken' = Rank(R, at)
        /\ authTimer' = Rank(RT, atm)
        /\ loc' = [q \in Procs |->
                      [l[q] EXCEPT !.tok = Rank(R, l[q].tok),
                                   !.tm = Rank(RT, l[q].tm),
                                   !.opts = RenameOptions(l[q].opts, R)]]
        /\ heap' = Collect(h, R, Followed(at, l))
        /\ timers' = CollectTimers(t, RT)

FreshToken == Min(TokIds \ TokRefs(authToken, loc))

FreshTimer == Min(TimerIds \ TimerRefs(authTimer, loc))

FreeGoroutines == {g \in Goroutines : pc[g] = "free"}

\* auth.mutex
CanRLock == writer = 0

CanLock == writer = 0 /\ readers = {}

HoldsForRead(p) == p \in readers \/ writer = p

HoldsForWrite(p) == writer = p

\* an access to auth.token by p is recorded when p does not hold the mutex
Accessed(p, ok) == [hist EXCEPT !.unguarded = hist.unguarded \/ ~ok]

(***************************************************************************)
(* The answers of the identity service to a token request.                 *)
(***************************************************************************)
TokenAnswer(id, e) ==
    [sent |-> TRUE,
     response |-> [StatusCode |-> 201, SubjectToken |-> String(TokenValue(id)),
                   Body |-> [kind |-> "token", ExpiresAt |-> e]]]

RejectAnswer ==
    [sent |-> TRUE,
     response |-> [StatusCode |-> 401, SubjectToken |-> NilPtr, Body |-> [kind |-> "error"]]]

TypeErrAnswer(id) ==
    [sent |-> TRUE,
     response |-> [StatusCode |-> 201, SubjectToken |-> String(TokenValue(id)),
                   Body |-> [kind |-> "typeerr", ExpiresAt |-> NilPtr]]]

\* expires_at is absent, or there with the time left (one that does not
\* parse is left to the single call of Login above)
Expiries(r) == {NilPtr} \cup {Ptr([parses |-> TRUE, in |-> n]) : n \in Lifetimes(r)}

ServiceAnswers(r, id) ==
    {TokenAnswer(id, e) : e \in Expiries(r)}
    \cup {RejectAnswer, TypeErrAnswer(id), [sent |-> FALSE]}

IsTokenAnswer(a) == a.sent /\ a.response.StatusCode = 201 /\ a.response.Body.kind = "token"

(***************************************************************************)
(* Login, per revision: the method, the panics before the request, and     *)
(* what Login does with the answer.                                        *)
(***************************************************************************)
\* revision A (types.go:365-382)
LoginMethodA(opts) == IF NonBlank(opts.TokenID) THEN "token" ELSE "password"

LoginDebugA(opts) ==
    IF NonBlank(opts.TokenID) THEN ZipString(opts.TokenID.val, LoginZipLength) ELSE Ok(<<>>)

\* revision A: CreateToken of src/unnamed/part_010 over Invoke of
\* src/unnamed/part_008, then types.go:384-419
LoginOutcomeA(a) ==
    IF ~a.sent THEN Ok([outcome |-> "error", err |-> ErrSend])
    ELSE LET k == a.response.Body.kind
         IN  IF k = "readerr" THEN Ok([outcome |-> "error", err |-> ErrRead])
             ELSE IF k \in {"empty", "syntaxerr", "typeerr"}
             THEN Ok([outcome |-> "error", err |-> ErrDecode])
             ELSE IF k = "error" THEN Panic("nil pointer dereference")
             ELSE LET t == [ExpiresAt |-> a.response.Body.ExpiresAt,
                            Value |-> String(HeaderGet(a.response))]
                  IN  Ok([outcome |-> "store", token |-> t, armTimer |-> ExpiryParses(t)])

\* revision B: CreateToken of identity_v3_token.go:180-186 over Invoke of
\* src/unnamed/part_009
CreateTokenReturnB(a) ==
    IF ~a.sent THEN Ok([token |-> NilPtr, result |-> NilPtr, err |-> ErrSend])
    ELSE LET h == HandleResponseStruct(a.response, EmptyOutput)
         IN  IF IsNil(h.output.SubjectToken)
             THEN Ok([token |-> h.output.Token, result |-> h.result, err |-> h.err])
             ELSE IF IsNil(h.output.Token) THEN Panic("nil pointer dereference")
             ELSE Ok([token  |-> Ptr([h.output.Token.val EXCEPT !.Value = h.output.SubjectToken]),
                      result |-> h.result,
                      err    |-> h.err])

\* revision B (authenticator.go:246-285): the timer is commented out
LoginOutcomeB(a) ==
    LET out == LoginAfterCreateToken(CreateTokenReturnB(a))
    IN  IF out.panic \/ out.val.outcome = "error" THEN out
        ELSE Ok([out.val EXCEPT !.armTimer = FALSE])

\* revision C (authenticator.go:474-505 over identity_v3_apis.go:121-126)
LoginOutcomeC(a) ==
    LoginAfterCreateToken(CreateTokenReturn(
        IF a.sent THEN InvokeResponse(CreateTokenSuccessCodes, a.response, EmptyOutput)
        ELSE InvokeError(ErrSend)))

LoginOutcome(r, a) ==
    IF r = "A" THEN LoginOutcomeA(a)
    ELSE IF r = "B" THEN LoginOutcomeB(a)
    ELSE LoginOutcomeC(a)

\* the method of the request Login sends, or the panic before it is sent
LoginRequest(r, opts) ==
    IF r = "A"
    THEN LET dbg == LoginDebugA(opts)
         IN  IF dbg.panic THEN dbg ELSE Ok([method |-> LoginMethodA(opts)])
    ELSE LET dbg == LoginDebug(opts)
         IN  IF dbg.panic THEN dbg
             ELSE IF r = "B"
             THEN IF LoginMethod(opts) = "none" THEN Panic("reflect: call of Type on zero Value")
                  ELSE Ok([method |-> LoginMethod(opts)])
             ELSE LET in == CreateTokenInput(LoginCreateTokenOptions(opts))
                  IN  IF in.panic THEN in
                      ELSE Ok([method |-> in.val.Auth.Identity.Methods[1]])

\* the duration Login gives the timer (seconds), from the seconds the token
\* has left
RefreshMarginA == 30

RefreshDelayC == 5

TimerDelay(r, left) == IF r = "A" THEN left - RefreshMarginA ELSE RefreshDelayC

\* LoginOptions with no field set
NoLoginOptions ==
    [TokenID |-> NilPtr, UserPassword |-> NilPtr, AppCredentialID |-> NilPtr,
     Secret |-> NilPtr, UserName |-> NilPtr, UserDomainID |-> NilPtr,
     UserDomainName |-> NilPtr, ScopeProjectID |-> NilPtr, ScopeProjectName |-> NilPtr,
     ScopeDomainID |-> NilPtr, ScopeDomainName |-> NilPtr, UnscopedLogin |-> NilPtr]

\* the options of the Login the goroutine will make
RefreshOptions(r, opts, tokenValue) ==
    IF r = "A"
    THEN Merge(NoLoginOptions,
               [TokenID          |-> tokenValue,
                ScopeProjectName |-> opts.ScopeDomainName,
                ScopeDomainName  |-> opts.ScopeDomainName,
                UnscopedLogin    |-> opts.UnscopedLogin])
    ELSE opts

(***************************************************************************)
(* The initial state: no token, no timer, the first n callers idle.        *)
(***************************************************************************)
NoHistory ==
    [unguarded |-> FALSE, loggedOut |-> FALSE, refused |-> FALSE,
     apiRefused |-> FALSE, apiError |-> ""]

AuthIdle(r, n) ==
    /\ rev = r
    /\ heap = [i \in TokIds |-> FreeToken]
    /\ authToken = 0
    /\ authTimer = 0
    /\ timers = [i \in TimerIds |-> FreeTimer]
    /\ writer = 0
    /\ readers = {}
    /\ pc = [p \in Procs |-> IF p \in Users THEN IF p <= n THEN "idle" ELSE "absent"
                              ELSE "free"]
    /\ loc = [p \in Procs |-> NoLocals]
    /\ userLogins = 0
    /\ panicked = ""
    /\ hist = NoHistory

NoCall == FnStart("none", NilPtr, NilPtr, NilPtr)

Init ==
    /\ \E r \in Revisions, n \in Users : AuthIdle(r, n)
    /\ fn = NoCall

\* the callers that take part
Callers == {u \in Users : pc[u] # "absent"}

\* the options the callers log in with: by password, scoped to a project of
\* a domain or unscoped
ProjectName == <<"p">>

DomainName == <<"d">>

PasswordLogin ==
    Merge(NoLoginOptions,
          [UserName |-> String(SampleName), UserDomainName |-> String(DomainName),
           UserPassword |-> String(SamplePassword)])

UserLoginChoices ==
    {Merge(PasswordLogin, [ScopeProjectName |-> String(ProjectName),
                           ScopeDomainName  |-> String(DomainName)]),
     Merge(PasswordLogin, [UnscopedLogin |-> Bool(TRUE)])}

\* a refresh goroutine that starts over when its Login is over
StartsAgain(p) == IF p \in Users THEN "idle" ELSE "go_start"

\* the goroutine of a caller returns to its loop, a refresh goroutine ends
Returned(p) == IF p \in Users THEN "idle" ELSE "free"

(***************************************************************************)
(* Login.                                                                  *)
(***************************************************************************)
\* Login from its first line to the sending of the token request
LoginBegin(p, opts, l) ==
    LET req == LoginRequest(rev, opts)
    IN  IF req.panic
        THEN /\ panicked' = req.why
             /\ UNCHANGED <<pc, loc, heap, authToken, authTimer, timers>>
        ELSE /\ pc' = [pc EXCEPT ![p] = "login_http"]
             /\ Objects(heap, authToken, timers, authTimer,
                        [l EXCEPT ![p].opts = Ptr(opts),
                                  ![p].method = req.val.method,
                                  ![p].credStored =
                                      /\ authToken # 0
                                      /\ opts.TokenID = heap[authToken].Value])
             /\ UNCHANGED panicked

\* a caller calls Login
UserLogin(u) ==
    /\ Running
    /\ u \in Users
    /\ pc[u] = "idle"
    /\ userLogins < MaxUserLogins
    /\ userLogins + Cardinality(Callers) < MaxLoad
    /\ \E opts \in UserLoginChoices : LoginBegin(u, opts, [loc EXCEPT ![u] = NoLocals])
    /\ userLogins' = userLogins + 1
    /\ hist' = [hist EXCEPT !.loggedOut = FALSE]
    /\ UNCHANGED <<rev, writer, readers, fn>>

\* the answer to the token request arrives and Login goes on to
\* auth.mutex.Lock() or returns
LoginAnswer(p) ==
    /\ Running
    /\ pc[p] = "login_http"
    /\ LET id == FreshToken
       IN  \E a \in ServiceAnswers(rev, id) :
              LET out == LoginOutcome(rev, a)
              IN  /\ hist' = [hist EXCEPT !.refused = hist.refused \/ ~IsTokenAnswer(a)]
                  /\ IF out.panic
                     THEN /\ panicked' = out.why
                          /\ UNCHANGED <<pc, loc, heap, authToken, authTimer, timers>>
                     ELSE IF out.val.outcome = "error"
                     THEN /\ pc' = [pc EXCEPT ![p] = Returned(p)]
                          /\ Objects(heap, authToken, timers, authTimer,
                                     [loc EXCEPT ![p] = NoLocals])
                          /\ UNCHANGED panicked
                     ELSE /\ pc' = [pc EXCEPT ![p] = "login_lock"]
                          /\ Objects([heap EXCEPT ![id] = out.val.token], authToken,
                                     timers, authTimer, [loc EXCEPT ![p].tok = id])
                          /\ UNCHANGED panicked
    /\ UNCHANGED <<rev, writer, readers, userLogins, fn>>

\* auth.mutex.Lock()
LoginLockSkipped(p) ==
    /\ Running
    /\ pc[p] = "login_lock"
    /\ pc' = [pc EXCEPT ![p] = "login_store"]
    /\ UNCHANGED <<rev, heap, authToken, authTimer, timers, writer, readers, loc,
                   userLogins, panicked, hist, fn>>

LoginLock(p) ==
    /\ Running
    /\ pc[p] = "login_lock"
    /\ CanLock
    /\ writer' = p
    /\ pc' = [pc EXCEPT ![p] = "login_store"]
    /\ UNCHANGED <<rev, heap, authToken, authTimer, timers, readers, loc,
                   userLogins, panicked, hist, fn>>

NewTimer(d) == [rem |-> Max2(d, 0), state |-> IF d <= 0 THEN "fired" ELSE "armed"]

\* Login stores the token, arms the timer and starts the goroutine when
\* ExpiresAt parses, and returns, which unlocks the mutex
LoginStore(p) ==
    /\ Running
    /\ pc[p] = "login_store"
    /\ LET id    == loc[p].tok
           opts  == loc[p].opts.val
           arm   == rev # "B" /\ ExpiryParses(heap[id])
           tm    == FreshTimer
           g     == IF p \in Goroutines THEN p ELSE Min(FreeGoroutines)
           l0    == [loc EXCEPT ![p] = NoLocals]
       IN  /\ hist' = Accessed(p, HoldsForWrite(p))
           /\ IF arm
              THEN /\ pc' = [pc EXCEPT ![p] = Returned(p), ![g] = "go_start"]
                   /\ Objects(heap, id,
                              [timers EXCEPT ![tm] = NewTimer(TimerDelay(rev, heap[id].ExpiresAt.val.in))],
                              tm,
                              [l0 EXCEPT ![g] = [NoLocals EXCEPT
                                    !.opts = Ptr(RefreshOptions(rev, opts, heap[id].Value)),
                                    !.armScope = Ptr(ScopeOf(opts))]])
              ELSE /\ pc' = [pc EXCEPT ![p] = Returned(p)]
                   /\ Objects(heap, id, timers, authTimer, l0)
    /\ writer' = IF writer = p THEN 0 ELSE writer
    /\ UNCHANGED <<rev, readers, userLogins, panicked, fn>>

(***************************************************************************)
(* The re-authentication goroutine: <-auth.timer.C, then auth.Login(lo).   *)
(***************************************************************************)
\* the goroutine evaluates auth.timer.C: it reads auth.timer, without the
\* mutex, and starts to wait on that timer's channel
GoStart(g) ==
    /\ Running
    /\ pc[g] = "go_start"
    /\ pc' = [pc EXCEPT ![g] = "go_wait"]
    /\ Objects(heap, authToken, timers, authTimer, [loc EXCEPT ![g].tm = authTimer])
    /\ UNCHANGED <<rev, writer, readers, userLogins, panicked, hist, fn>>

\* the timer has fired: the goroutine receives from the channel and calls
\* Login
GoWait(g) ==
    /\ Running
    /\ pc[g] = "go_wait"
    /\ timers[loc[g].tm].state = "fired"
    /\ LET t == [timers EXCEPT ![loc[g].tm].state = "drained"]
           req == LoginRequest(rev, loc[g].opts.val)
       IN  IF req.panic
           THEN /\ panicked' = req.why
                /\ UNCHANGED <<pc, loc, heap, authToken, authTimer, timers>>
           ELSE /\ pc' = [pc EXCEPT ![g] = "login_http"]
                /\ Objects(heap, authToken, t, authTimer,
                           [loc EXCEPT ![g].tm = 0,
                                       ![g].method = req.val.method,
                                       ![g].credStored =
                                           /\ authToken # 0
                                           /\ loc[g].opts.val.TokenID = heap[authToken].Value])
                /\ UNCHANGED panicked
    /\ UNCHANGED <<rev, writer, readers, userLogins, hist, fn>>

(***************************************************************************)
(* Time.  A step of the clock takes it to the next instant at which a      *)
(* timer fires or a token expires.  The code's own steps take no time:     *)
(* the clock advances while every goroutine waits, for a caller's next     *)
(* call, for the answer to a request, for a timer or for the mutex.        *)
(***************************************************************************)
Runnable(p) ==
    \/ pc[p] \in {"login_store", "go_start", "get_read", "cat_read", "logout_read",
                  "logout_nested_read", "logout_value", "logout_clear", "api_read",
                  "api_check", "api_header"}
    \/ pc[p] \in {"login_lock", "logout_lock"} /\ CanLock
    \/ pc[p] \in {"logout_start", "logout_nested"} /\ CanRLock
    \/ pc[p] = "go_wait" /\ timers[loc[p].tm].state = "fired"
    \/ pc[p] = "logout_drain" /\ timers[authTimer].state = "fired"

LiveExpiries ==
    {heap[i].ExpiresAt.val.in : i \in {j \in TokIds : ExpiryParses(heap[j])}}

Pending == ({timers[t].rem : t \in {x \in TimerIds : timers[x].state = "armed"}}
            \cup LiveExpiries) \ {0}

Elapse(n, d) == Max2(n - d, 0)

Tick ==
    /\ Running
    /\ \A p \in Procs : ~Runnable(p)
    /\ Pending # {}
    /\ LET d == Min(Pending)
       IN  /\ timers' = [t \in TimerIds |->
                            IF timers[t].state = "armed"
                            THEN IF timers[t].rem <= d
                                 THEN [rem |-> 0, state |-> "fired"]
                                 ELSE [timers[t] EXCEPT !.rem = timers[t].rem - d]
                            ELSE timers[t]]
           /\ heap' = [i \in TokIds |->
                          IF ExpiryParses(heap[i])
                          THEN [heap[i] EXCEPT !.ExpiresAt =
                                   Ptr([parses |-> TRUE, in |-> Elapse(heap[i].ExpiresAt.val.in, d)])]
                          ELSE heap[i]]
    /\ UNCHANGED <<rev, authToken, authTimer, writer, readers, pc, loc, userLogins,
                   panicked, hist, fn>>

(***************************************************************************)
(* GetToken and GetCatalog, called by a caller.                            *)
(***************************************************************************)
\* a caller calls GetToken (GetTokenValue in revision A), which starts with
\* auth.mutex.RLock()
UserGetToken(u) ==
    /\ Running
    /\ u \in Users
    /\ pc[u] = "idle"
    /\ CanRLock
    /\ readers' = readers \cup {u}
    /\ pc' = [pc EXCEPT ![u] = "get_read"]
    /\ UNCHANGED <<rev, heap, authToken, authTimer, timers, writer, loc,
                   userLogins, panicked, hist, fn>>

\* return auth.token, and the deferred RUnlock
GetTokenRead(u) ==
    /\ Running
    /\ pc[u] = "get_read"
    /\ hist' = Accessed(u, HoldsForRead(u))
    /\ readers' = readers \ {u}
    /\ pc' = [pc EXCEPT ![u] = "idle"]
    /\ Objects(heap, authToken, timers, authTimer,
               [loc EXCEPT ![u] = NoLocals])
    /\ UNCHANGED <<rev, writer, userLogins, panicked, fn>>

\* a caller calls GetCatalog, which starts with auth.mutex.RLock()
UserGetCatalog(u) ==
    /\ Running
    /\ u \in Users
    /\ pc[u] = "idle"
    /\ CanRLock
    /\ readers' = readers \cup {u}
    /\ pc' = [pc EXCEPT ![u] = "cat_read"]
    /\ UNCHANGED <<rev, heap, authToken, authTimer, timers, writer, loc,
                   userLogins, panicked, hist, fn>>

\* if auth.token != nil { return auth.token.Catalog }; return nil
GetCatalogRead(u) ==
    /\ Running
    /\ pc[u] = "cat_read"
    /\ hist' = Accessed(u, HoldsForRead(u))
    /\ readers' = readers \ {u}
    /\ pc' = [pc EXCEPT ![u] = "idle"]
    /\ Objects(heap, authToken, timers, authTimer,
               [loc EXCEPT ![u] = NoLocals])
    /\ UNCHANGED <<rev, writer, userLogins, panicked, fn>>

(***************************************************************************)
(* Logout.                                                                 *)
(***************************************************************************)
UserLoginPcs == {"login_http", "login_lock", "login_store"}

\* Logout returns to its caller: from then on the Authenticator counts as
\* logged out, unless a Login called by a caller is under way
LogoutReturned(u, h) ==
    [h EXCEPT !.loggedOut = h.loggedOut \/ (\A v \in Users : pc[v] \notin UserLoginPcs)]

UserLogout(u) ==
    /\ Running
    /\ u \in Users
    /\ pc[u] = "idle"
    /\ pc' = [pc EXCEPT ![u] = "logout_start"]
    /\ UNCHANGED <<rev, heap, authToken, authTimer, timers, writer, readers, loc,
                   userLogins, panicked, hist, fn>>

\* Logout calls GetToken, which starts with auth.mutex.RLock(): at its first
\* line and, in revision C, at line 532, where Logout holds the mutex for
\* writing.  sync.RWMutex is not reentrant: the goroutine that holds it for
\* writing waits in RLock like any other.
LogoutGetToken(u) ==
    /\ Running
    /\ pc[u] \in {"logout_start", "logout_nested"}
    /\ CanRLock
    /\ readers' = readers \cup {u}
    /\ pc' = [pc EXCEPT ![u] = IF pc[u] = "logout_start" THEN "logout_read"
                                ELSE "logout_nested_read"]
    /\ UNCHANGED <<rev, heap, authToken, authTimer, timers, writer, loc,
                   userLogins, panicked, hist, fn>>

\* where Logout goes on once it holds the mutex and has dealt with the timer
AfterLogoutTimer(r) == IF r = "C" THEN "logout_nested" ELSE "logout_clear"

\* token := auth.GetToken() (value := auth.GetTokenValue() in revision A)
\* returns; a nil token (value) ends Logout.  In revision C the same step
\* ends the GetToken of line 532, on which DeleteToken follows (with the
\* GetToken of its PrepareRequest).
LogoutRead(u) ==
    /\ Running
    /\ pc[u] \in {"logout_read", "logout_nested_read"}
    /\ readers' = readers \ {u}
    /\ IF pc[u] = "logout_nested_read"
       THEN /\ hist' = Accessed(u, HoldsForRead(u))
            /\ IF authToken = 0
               THEN /\ panicked' = "nil pointer dereference"
                    /\ UNCHANGED <<pc, loc, heap, authToken, authTimer, timers>>
               ELSE /\ pc' = [pc EXCEPT ![u] =
                                 IF IsNil(heap[authToken].Value) THEN "logout_clear"
                                 ELSE "api_check"]
                    /\ Objects(heap, authToken, timers, authTimer,
                               [loc EXCEPT ![u].ret = "logout", ![u].tok = authToken])
                    /\ UNCHANGED panicked
       ELSE IF authToken = 0
       THEN /\ hist' = LogoutReturned(u, Accessed(u, HoldsForRead(u)))
            /\ pc' = [pc EXCEPT ![u] = "idle"]
            /\ Objects(heap, authToken, timers, authTimer,
                       [loc EXCEPT ![u] = NoLocals])
            /\ UNCHANGED panicked
       ELSE /\ hist' = Accessed(u, HoldsForRead(u))
            /\ pc' = [pc EXCEPT ![u] = IF rev = "A" THEN "logout_lock" ELSE "logout_value"]
            /\ Objects(heap, authToken, timers, authTimer, [loc EXCEPT ![u].tok = authToken])
            /\ UNCHANGED panicked
    /\ UNCHANGED <<rev, writer, userLogins, fn>>

\* value := token.Value, read without the mutex; a nil value ends Logout
LogoutValue(u) ==
    /\ Running
    /\ pc[u] = "logout_value"
    /\ LET value == heap[loc[u].tok].Value
       IN  IF IsNil(value)
           THEN /\ hist' = LogoutReturned(u, hist)
                /\ pc' = [pc EXCEPT ![u] = "idle"]
                /\ Objects(heap, authToken, timers, authTimer,
                           [loc EXCEPT ![u] = NoLocals])
                /\ UNCHANGED panicked
           ELSE LET z == ZipString(value.val, LogoutZipLength)
                IN  IF z.panic
                    THEN /\ panicked' = z.why
                         /\ UNCHANGED <<pc, loc, heap, authToken, authTimer, timers, hist>>
                    ELSE /\ pc' = [pc EXCEPT ![u] = "logout_lock"]
                         /\ UNCHANGED <<loc, heap, authToken, authTimer, timers, hist, panicked>>
    /\ UNCHANGED <<rev, writer, readers, userLogins, fn>>

\* auth.mutex.Lock(), then auth.timer.Stop(): Stop returns false when the
\* timer has fired or has been stopped, and then Logout (not in revision A)
\* receives from the timer's channel
LogoutLock(u) ==
    /\ Running
    /\ pc[u] = "logout_lock"
    /\ CanLock
    /\ writer' = u
    /\ IF authTimer = 0
       THEN /\ pc' = [pc EXCEPT ![u] = AfterLogoutTimer(rev)]
            /\ UNCHANGED timers
       ELSE IF timers[authTimer].state = "armed"
       THEN /\ pc' = [pc EXCEPT ![u] = AfterLogoutTimer(rev)]
            /\ timers' = [timers EXCEPT ![authTimer] = [rem |-> 0, state |-> "stopped"]]
       ELSE /\ pc' = [pc EXCEPT ![u] = IF rev = "A" THEN AfterLogoutTimer(rev)
                                       ELSE "logout_drain"]
            /\ UNCHANGED timers
    /\ UNCHANGED <<rev, heap, authToken, authTimer, readers, loc, userLogins,
                   panicked, hist, fn>>

\* <-auth.timer.C
LogoutDrain(u) ==
    /\ Running
    /\ pc[u] = "logout_drain"
    /\ timers[authTimer].state = "fired"
    /\ timers' = [timers EXCEPT ![authTimer].state = "drained"]
    /\ pc' = [pc EXCEPT ![u] = AfterLogoutTimer(rev)]
    /\ UNCHANGED <<rev, heap, authToken, authTimer, writer, readers, loc, userLogins,
                   panicked, hist, fn>>

\* auth.token.Value = nil; auth.token = nil (auth.tokenValue = nil;
\* auth.tokenInfo = nil in revision A), and the deferred Unlock
LogoutClear(u) ==
    /\ Running
    /\ pc[u] = "logout_clear"
    /\ IF rev # "A" /\ authToken = 0
       THEN /\ panicked' = "nil pointer dereference"
            /\ hist' = Accessed(u, HoldsForWrite(u))
            /\ UNCHANGED <<pc, loc, heap, authToken, authTimer, timers, writer>>
       ELSE /\ hist' = LogoutReturned(u, Accessed(u, HoldsForWrite(u)))
            /\ pc' = [pc EXCEPT ![u] = "idle"]
            /\ Objects(IF rev = "A" THEN heap
                       ELSE [heap EXCEPT ![authToken].Value = NilPtr],
                       0, timers, authTimer,
                       [loc EXCEPT ![u] = NoLocals])
            /\ writer' = IF writer = u THEN 0 ELSE writer
            /\ UNCHANGED panicked
    /\ UNCHANGED <<rev, readers, userLogins, fn>>

(***************************************************************************)
(* An authenticated wrapper call (ListProjects, RetrieveCatalog,           *)
(* CheckToken, DeleteToken, ...): Invoke, PrepareRequest, the request, the *)
(* response, and the wrapper's test of result.Code.                        *)
(***************************************************************************)
\* what the identity service, or the network, answers to the call
ApiAnswers ==
    {[sent |-> FALSE]} \cup
    {[sent |-> TRUE,
      response |-> [StatusCode |-> c, SubjectToken |-> NilPtr, Body |-> [kind |-> "error"]]] :
        c \in {200, 401}}

ListProjectsSuccessCodes == {200}

\* the wrapper after Invoke: if result.Code == 200 {...}; return nil, result, err
WrapperReturn(inv) ==
    IF inv.panic THEN inv
    ELSE IF IsNil(inv.val.result) THEN Panic("nil pointer dereference")
    ELSE Ok([ok     |-> inv.val.result.val.Code \in ListProjectsSuccessCodes,
             result |-> inv.val.result,
             err    |-> inv.val.err])

\* a caller calls the wrapper, which reaches the auth.mutex.RLock() of the
\* GetToken in PrepareRequest
UserApiCall(u) ==
    /\ Running
    /\ rev # "A"
    /\ u \in Users
    /\ pc[u] = "idle"
    /\ CanRLock
    /\ readers' = readers \cup {u}
    /\ pc' = [pc EXCEPT ![u] = "api_read"]
    /\ UNCHANGED <<rev, heap, authToken, authTimer, timers, writer, loc,
                   userLogins, panicked, hist, fn>>

\* PrepareRequest: token := api.client.Authenticator.GetToken() returns
ApiRead(p) ==
    /\ Running
    /\ pc[p] = "api_read"
    /\ hist' = Accessed(p, HoldsForRead(p))
    /\ readers' = readers \ {p}
    /\ pc' = [pc EXCEPT ![p] = "api_check"]
    /\ Objects(heap, authToken, timers, authTimer, [loc EXCEPT ![p].tok = authToken])
    /\ UNCHANGED <<rev, writer, userLogins, panicked, fn>>

\* the wrapper returns to its caller, which is Logout when the call is the
\* DeleteToken of revision C
ApiReturn(p) ==
    IF loc[p].ret = "logout"
    THEN /\ pc' = [pc EXCEPT ![p] = "logout_clear"]
         /\ Objects(heap, authToken, timers, authTimer, [loc EXCEPT ![p].tok = 0])
    ELSE /\ pc' = [pc EXCEPT ![p] = "idle"]
         /\ Objects(heap, authToken, timers, authTimer, [loc EXCEPT ![p] = NoLocals])

\* PrepareRequest: if token == nil || token.Value == nil, the call is refused
\* and Invoke returns (nil, err) to the wrapper
ApiCheck(p) ==
    /\ Running
    /\ pc[p] = "api_check"
    /\ LET token == IF loc[p].tok = 0 THEN NilPtr ELSE Ptr(heap[loc[p].tok])
       IN  IF PrepareRequestRefuses(TRUE, token)
           THEN LET w == WrapperReturn(InvokeError(ErrNoToken))
                IN  IF w.panic
                    THEN /\ panicked' = w.why
                         /\ hist' = [hist EXCEPT !.apiRefused = TRUE, !.apiError = ""]
                         /\ UNCHANGED <<pc, loc, heap, authToken, authTimer, timers>>
                    ELSE /\ hist' = [hist EXCEPT !.apiRefused = TRUE, !.apiError = w.val.err]
                         /\ ApiReturn(p)
                         /\ UNCHANGED panicked
           ELSE /\ pc' = [pc EXCEPT ![p] = "api_header"]
                /\ UNCHANGED <<loc, heap, authToken, authTimer, timers, hist, panicked>>
    /\ UNCHANGED <<rev, writer, readers, userLogins, fn>>

\* PrepareRequest: request.Header.Add("X-Auth-Token", *token.Value), and the
\* request is sent
ApiHeader(p) ==
    /\ Running
    /\ pc[p] = "api_header"
    /\ IF IsNil(heap[loc[p].tok].Value)
       THEN /\ panicked' = "nil pointer dereference"
            /\ UNCHANGED pc
       ELSE /\ pc' = [pc EXCEPT ![p] = "api_http"]
            /\ UNCHANGED panicked
    /\ UNCHANGED <<rev, heap, authToken, authTimer, timers, writer, readers, loc,
                   userLogins, hist, fn>>

\* the answer arrives: Invoke and the wrapper return
ApiAnswer(p) ==
    /\ Running
    /\ pc[p] = "api_http"
    /\ \E a \in ApiAnswers :
          LET w == WrapperReturn(
                       IF a.sent
                       THEN InvokeResponse(ListProjectsSuccessCodes, a.response, EmptyOutput)
                       ELSE InvokeError(ErrSend))
          IN  IF w.panic
              THEN /\ panicked' = w.why
                   /\ UNCHANGED <<pc, loc, heap, authToken, authTimer, timers>>
              ELSE /\ ApiReturn(p)
                   /\ UNCHANGED panicked
    /\ UNCHANGED <<rev, writer, readers, userLogins, hist, fn>>

(***************************************************************************)
(* The Authenticator under its callers, its goroutines and the clock.      *)
(***************************************************************************)
Next ==
    \/ \E u \in Users : UserLogin(u)
    \/ \E p \in Procs : LoginAnswer(p)
    \/ \E p \in Procs : LoginLock(p)
    \/ \E p \in Procs : LoginStore(p)
    \/ \E g \in Goroutines : GoStart(g)
    \/ \E g \in Goroutines : GoWait(g)
    \/ \E u \in Users : UserGetToken(u)
    \/ \E u \in Users : GetTokenRead(u)
    \/ \E u \in Users : UserGetCatalog(u)
    \/ \E u \in Users : GetCatalogRead(u)
    \/ \E u \in Users : UserLogout(u)
    \/ \E u \in Users : LogoutGetToken(u)
    \/ \E u \in Users : LogoutRead(u)
    \/ \E u \in Users : LogoutValue(u)
    \/ \E u \in Users : LogoutLock(u)
    \/ \E u \in Users : LogoutDrain(u)
    \/ \E u \in Users : LogoutClear(u)
    \/ \E u \in Users : UserApiCall(u)
    \/ \E u \in Users : ApiRead(u)
    \/ \E u \in Users : ApiCheck(u)
    \/ \E u \in Users : ApiHeader(u)
    \/ \E u \in Users : ApiAnswer(u)
    \/ Tick

Spec == Init /\ [][Next]_vars

(***************************************************************************)
(* One call of Login (revision C) on arbitrary options, with an arbitrary  *)
(* answer of the identity service.                                         *)
(***************************************************************************)
InitLogin ==
    /\ AuthIdle("C", NumUsers)
    /\ \E o \in LoginOptionsChoices : fn = FnStart("login", Ptr(o), NilPtr, NilPtr)

NextLogin == LoginChoose \/ CreateTokenSend \/ CreateTokenAnswer \/ LoginFinish

SpecLogin == InitLogin /\ [][NextLogin]_vars

(***************************************************************************)
(* One call of CreateToken on arbitrary options, with an arbitrary token   *)
(* in the Authenticator and an arbitrary answer of the identity service.   *)
(***************************************************************************)
InitCreateToken ==
    /\ AuthIdle("C", NumUsers)
    /\ \E o \in CreateTokenOptionsChoices, st \in StoredChoices :
          fn = FnStart("createtoken", NilPtr, Ptr(o), st)

NextCreateToken == CreateTokenSend \/ CreateTokenAnswer

SpecCreateToken == InitCreateToken /\ [][NextCreateToken]_vars

(***************************************************************************)
(* One call of the CreateToken that takes typed options                    *)
(* (src/openstack/identity_v3_token.go:78-187), over the Invoke that has   *)
(* no checker (src/unnamed/part_009).  The options are given with the Go   *)
(* type of the value passed in.                                            *)
(***************************************************************************)
OptionTypes ==
    {"CreateTokenByPasswordOptions", "CreateTokenByTokenOptions",
     "CreateTokenByAppCredentialOptions", "CreateTokenOptions"}

TypedOptionsChoices ==
    {Merge(o, [type |-> t]) :
        o \in {c \in CreateTokenOptionsChoices :
                  /\ c.TokenID = String(SampleToken)
                  /\ c.UserPassword = String(SamplePassword)},
        t \in OptionTypes}

\* the switch on the type of opts: input.Auth, nil in the default case
CreateTokenTypedIdentity(o) ==
    IF o.type = "CreateTokenByPasswordOptions"
    THEN Ptr(Merge(NoIdentity,
            [Methods  |-> <<"password">>,
             Password |-> Ptr([User |-> [ID |-> o.UserID, Name |-> o.UserName,
                                         Password |-> o.UserPassword,
                                         Domain |-> [ID |-> o.UserDomainID,
                                                     Name |-> o.UserDomainName]]])]))
    ELSE IF o.type = "CreateTokenByTokenOptions"
    THEN Ptr(Merge(NoIdentity,
            [Methods |-> <<"token">>,
             Token   |-> Ptr([ID |-> o.TokenID])]))
    ELSE IF o.type = "CreateTokenByAppCredentialOptions"
    THEN Ptr(Merge(NoIdentity,
            [Methods       |-> <<"application_credential">>,
             AppCredential |->
                 IF NonBlank(o.AppCredentialID)
                 THEN Ptr([ID |-> o.AppCredentialID, User |-> NilPtr])
                 ELSE Ptr([ID |-> o.AppCredentialID,
                           User |-> Ptr([ID |-> o.UserID, Name |-> o.UserName,
                                         Domain |-> [ID |-> o.UserDomainID,
                                                     Name |-> o.UserDomainName]])])]))
    ELSE NilPtr

\* the input struct: the value initCreateTokenOptionsScope returns is
\* dropped (lines 118, 135, 165), so that Auth.Scope keeps its zero value
CreateTokenTypedInput(o) ==
    LET id == CreateTokenTypedIdentity(o)
    IN  [NoCatalog |-> o.NoCatalog,
         Auth |-> IF IsNil(id) THEN [Identity |-> NoIdentity, Scope |-> NoScope, isNil |-> TRUE]
                  ELSE [Identity |-> id.val, Scope |-> NoScope, isNil |-> FALSE],
         authenticated |-> IF IsNil(id) THEN FALSE ELSE o.Authenticated]

\* PrepareRequest of src/unnamed/part_009 with a token to add: the token is
\* logged through ZipString first
PrepareRequestZipLength == 16

PrepareRequestLog(authenticated, token) ==
    IF authenticated /\ ~PrepareRequestRefuses(authenticated, token)
    THEN ZipString(token.val.Value.val, PrepareRequestZipLength)
    ELSE Ok(<<>>)

\* CreateToken up to the sending of the request
CreateTokenTypedSend ==
    /\ fn.pc = "createtoken_typed"
    /\ LET in == CreateTokenTypedInput(fn.cto.val)
           lg == PrepareRequestLog(in.authenticated, fn.stored)
       IN  fn' = IF PrepareRequestRefuses(in.authenticated, fn.stored)
                 THEN LET ret == CreateTokenReturnB([sent |-> FALSE])
                      IN  [fn EXCEPT !.pc = "returned",
                                     !.ret = Ptr([ret.val EXCEPT !.err = ErrNoToken])]
                 ELSE IF lg.panic THEN FnPanic(lg.why)
                 ELSE [fn EXCEPT !.pc = "sent_typed", !.request = Ptr(in)]
    /\ UNCHANGED authVars

\* the answer comes back and CreateToken returns
CreateTokenTypedAnswer ==
    /\ fn.pc = "sent_typed"
    /\ \E a \in Answers :
          LET ret == CreateTokenReturnB(a)
          IN  fn' = IF ret.panic
                    THEN [FnPanic(ret.why) EXCEPT !.answer = a]
                    ELSE [fn EXCEPT !.pc = "returned", !.answer = a, !.ret = Ptr(ret.val)]
    /\ UNCHANGED authVars

InitCreateTokenTyped ==
    /\ AuthIdle("B", NumUsers)
    /\ \E o \in TypedOptionsChoices, st \in StoredChoices :
          fn = FnStart("createtoken_typed", NilPtr, Ptr(o), st)

NextCreateTokenTyped == CreateTokenTypedSend \/ CreateTokenTypedAnswer

SpecCreateTokenTyped == InitCreateTokenTyped /\ [][NextCreateTokenTyped]_vars

(***************************************************************************)
(* Single calls of the functions that have no state: fn.method names the   *)
(* function, fn.cto holds the arguments and fn.ret the value returned.     *)
(***************************************************************************)
CallStart(f, args) == [FnStart("call", NilPtr, Ptr(args), NilPtr) EXCEPT !.method = f]

CallDone(v) == [fn EXCEPT !.pc = "done", !.ret = Ptr(v)]

\* status codes a server can answer with, those NewResult knows among them
StatusCodes == KnownStatusCodes \cup {100, 202, 301, 302, 500, 502}

NewResultCall ==
    /\ fn.pc = "call"
    /\ fn.method = "NewResult"
    /\ fn' = CallDone(NewResult(fn.cto.val))
    /\ UNCHANGED authVars

\* HandleResponse on the output struct of CreateToken, not yet filled in
HandleResponseCall ==
    /\ fn.pc = "call"
    /\ fn.method = "HandleResponse"
    /\ fn' = CallDone(HandleResponseStruct(fn.cto.val.response, fn.cto.val.output))
    /\ UNCHANGED authVars

\* the arguments of Invoke: a checker or none, the output struct, and for
\* failure nil, a *string or a struct
Checkers ==
    {[given |-> FALSE, values |-> {}]}
    \cup {[given |-> TRUE, values |-> v] : v \in {{200}, {201}, {200, 204}}}

Outputs == {EmptyOutput, [SubjectToken |-> String(SampleName), Token |-> NilPtr]}

Failures ==
    {NilPtr, Ptr([kind |-> "string", set |-> FALSE]),
     Ptr([kind |-> "struct", set |-> FALSE, val |-> EmptyOutput])}

\* HandleResponse(response, failure): [result, err, failure]
HandleResponseFailure(response, failure) ==
    IF response.Body.kind = "readerr"
    THEN [result |-> NilPtr, err |-> ErrRead, failure |-> failure]
    ELSE IF IsNil(failure)
    THEN [result |-> Ptr(NewResult(response)), err |-> NoError, failure |-> failure]
    ELSE IF failure.val.kind = "string"
    THEN [result |-> Ptr(NewResult(response)), err |-> NoError,
          failure |-> Ptr([failure.val EXCEPT !.set = TRUE])]
    ELSE LET h == HandleResponseStruct(response, failure.val.val)
         IN  [result |-> h.result, err |-> h.err,
              failure |-> Ptr([failure.val EXCEPT !.set = TRUE, !.val = h.output])]

\* Invoke once the response is there (api.go:309-323)
Invoke(checker, response, output, failure) ==
    IF checker.given /\ StatusCodeIn(checker.values, response)
    THEN LET h == HandleResponseStruct(response, output)
         IN  IF IsNil(h.result) THEN Panic("nil pointer dereference")
             ELSE Ok([result  |-> Ptr([h.result.val EXCEPT !.OK = TRUE]),
                      err     |-> h.err,
                      output  |-> h.output,
                      failure |-> failure])
    ELSE LET h == HandleResponseFailure(response, failure)
         IN  Ok([result |-> h.result, err |-> h.err, output |-> output,
                 failure |-> h.failure])

InvokeCall ==
    /\ fn.pc = "call"
    /\ fn.method = "Invoke"
    /\ LET a == fn.cto.val
       IN  fn' = CallDone(Invoke(a.checker, a.response, a.output, a.failure))
    /\ UNCHANGED authVars

\* RetrieveToken and ReadToken after Invoke: result.Code is read, on 200 the
\* token gets the header's value and is returned, otherwise *output.SubjectToken
\* is logged and nil is returned
RetrieveTokenReturn(inv) ==
    IF inv.panic THEN inv
    ELSE IF IsNil(inv.val.result) THEN Panic("nil pointer dereference")
    ELSE LET out == inv.val.output
         IN  IF inv.val.result.val.Code = 200
             THEN IF IsNil(out.Token) THEN Panic("nil pointer dereference")
                  ELSE Ok([token  |-> Ptr([out.Token.val EXCEPT !.Value = out.SubjectToken]),
                           result |-> inv.val.result,
                           err    |-> inv.val.err])
             ELSE IF IsNil(out.SubjectToken) THEN Panic("nil pointer dereference")
             ELSE Ok([token |-> NilPtr, result |-> inv.val.result, err |-> inv.val.err])

\* RetrieveToken (identity_v3_apis.go:211-227) on the response to its
\* request: Invoke with StatusCodeIn(200) and nil for failure
RetrieveTokenSuccessCodes == {200}

RetrieveToken(response) ==
    RetrieveTokenReturn(InvokeResponse(RetrieveTokenSuccessCodes, response, EmptyOutput))

\* ReadToken (identity_v3_token.go:269-285) on the response to its request:
\* the Invoke of src/unnamed/part_009 has no checker and hands every
\* response and the output struct to HandleResponse
ReadToken(response) ==
    RetrieveTokenReturn(Ok(HandleResponseStruct(response, EmptyOutput)))

RetrieveTokenCall ==
    /\ fn.pc = "call"
    /\ fn.method = "RetrieveToken"
    /\ fn' = CallDone(RetrieveToken(fn.cto.val.response))
    /\ UNCHANGED authVars

ReadTokenCall ==
    /\ fn.pc = "call"
    /\ fn.method = "ReadToken"
    /\ fn' = CallDone(ReadToken(fn.cto.val.response))
    /\ UNCHANGED authVars

\* Error values (identity_v3_token.go:428-431): Err is the text and Info a
\* Go map, which is a reference: 0 is the nil map, and the maps made so far
\* are kept by id, each as a set of <<key, value>> pairs.
MaxWhereCalls == 3

DeclaredMaps == 2

MapIds == 1 .. (DeclaredMaps + MaxWhereCalls)

NoMaps == [maps |-> [i \in MapIds |-> {}], next |-> 0]

Errorf(text) == [Err |-> text, Info |-> 0]

\* Where that writes into the map of the receiver
WhereInPlace(h, e, key, info) ==
    IF e.Info = 0
    THEN [heap |-> [maps |-> [h.maps EXCEPT ![h.next + 1] = {<<key, info>>}],
                    next |-> h.next + 1],
          err  |-> [Err |-> e.Err, Info |-> h.next + 1]]
    ELSE [heap |-> [h EXCEPT !.maps[e.Info] =
                        {q \in h.maps[e.Info] : q[1] # key} \cup {<<key, info>>}],
          err  |-> e]

\* e.Where(key, info), with the maps before the call: the maps after it and
\* the Error returned
Where(h, e, key, info) ==
    LET ne     == h.next + 1
        copied == IF e.Info = 0 THEN {} ELSE h.maps[e.Info]
    IN  [heap |-> [maps |-> [h.maps EXCEPT ![ne] =
                                {q \in copied : q[1] # key} \cup {<<key, info>>}],
                   next |-> ne],
         err  |-> [Err |-> e.Err, Info |-> ne]]

StatusCodeKey == "Status-Code"

\* the package-level errors, as their declarations build them
DeclareSuccess == Where(NoMaps, Errorf("Success"), StatusCodeKey, "200")

DeclareBadRequest == Where(DeclareSuccess.heap, Errorf("Bad request"), StatusCodeKey, "400")

Success == DeclareSuccess.err

ErrorInvalidInput == Errorf("Invalid input value")

ErrorBadRequest == DeclareBadRequest.err

Keys == {StatusCodeKey, "AuthURL", "Password"}

Infos == {"must not be null", "404"}

\* the pairs of the Info of e
Context(h, e) == IF e.Info = 0 THEN {} ELSE h.maps[e.Info]

\* Where is called on a package-level error or on the Error the last call
\* returned
WhereCall ==
    /\ fn.pc = "call"
    /\ fn.method = "Where"
    /\ fn.cto.val.next < DeclaredMaps + MaxWhereCalls
    /\ \E e \in {Success, ErrorInvalidInput, ErrorBadRequest}
                \cup (IF IsNil(fn.ret) THEN {} ELSE {fn.ret.val.err}),
          key \in Keys, info \in Infos :
          LET w == Where(fn.cto.val, e, key, info)
          IN  fn' = [fn EXCEPT !.cto = Ptr(w.heap),
                               !.ret = Ptr([recv |-> e, before |-> Context(fn.cto.val, e),
                                            key |-> key, info |-> info, err |-> w.err])]
    /\ UNCHANGED authVars

\* the strings and the lengths ZipString is called with
MaxStringLen == 4

MaxZipLength == 9

Strings == UNION {[1 .. n -> {"a", "b"}] : n \in 0 .. MaxStringLen}

ZipStringCall ==
    /\ fn.pc = "call"
    /\ fn.method = "ZipString"
    /\ fn' = CallDone(ZipString(fn.cto.val.s, fn.cto.val.length))
    /\ UNCHANGED authVars

InitCalls ==
    /\ AuthIdle("C", NumUsers)
    /\ \/ \E c \in StatusCodes : fn = CallStart("NewResult", [StatusCode |-> c])
       \/ \E r \in Responses :
             fn = CallStart("HandleResponse", [response |-> r, output |-> EmptyOutput])
       \/ \E c \in Checkers, r \in Responses, o \in Outputs, f \in Failures :
             fn = CallStart("Invoke", [checker |-> c, response |-> r, output |-> o,
                                       failure |-> f])
       \/ \E r \in Responses, f \in {"RetrieveToken", "ReadToken"} :
             fn = CallStart(f, [response |-> r])
       \/ fn = CallStart("Where", DeclareBadRequest.heap)
       \/ \E str \in Strings, n \in 0 .. MaxZipLength :
             fn = CallStart("ZipString", [s |-> str, length |-> n])

NextCalls ==
    \/ NewResultCall
    \/ HandleResponseCall
    \/ InvokeCall
    \/ RetrieveTokenCall
    \/ ReadTokenCall
    \/ WhereCall
    \/ ZipStringCall

SpecCalls == InitCalls /\ [][NextCalls]_vars

(***************************************************************************)
(* CreateTokenFromEnv, in the revision of identity_v3_apis.go:179-194 and  *)
(* in that of identity_v3_token.go:237-252: the options are read from the  *)
(* environment (os.Getenv gives "" for a variable that is not set) and     *)
(* handed to CreateToken.  fn.opts holds the environment.                  *)
(***************************************************************************)
Unset == <<>>

Environments ==
    [OS_USERNAME            : {Unset, SampleName},
     OS_PASSWORD            : {Unset, SamplePassword},
     OS_USER_DOMAIN_NAME    : {Unset, DomainName},
     OS_PROJECT_NAME        : {Unset, Blank, ProjectName},
     OS_PROJECT_DOMAIN_NAME : {Unset, Blank, DomainName}]

\* the options CreateTokenFromEnv builds
EnvOptions(env) ==
    LET scoped == env.OS_PROJECT_NAME # <<>> /\ env.OS_PROJECT_DOMAIN_NAME # <<>>
    IN  Merge(NoCredentials,
              [UserName         |-> String(env.OS_USERNAME),
               UserPassword     |-> String(env.OS_PASSWORD),
               UserDomainName   |-> String(env.OS_USER_DOMAIN_NAME),
               ScopeProjectID   |-> NilPtr,
               ScopeProjectName |-> IF scoped THEN String(env.OS_PROJECT_NAME) ELSE NilPtr,
               ScopeDomainID    |-> NilPtr,
               ScopeDomainName  |-> IF scoped THEN String(env.OS_PROJECT_DOMAIN_NAME) ELSE NilPtr,
               UnscopedToken    |-> IF scoped THEN NilPtr ELSE Bool(TRUE),
               NoCatalog        |-> NilPtr,
               Authenticated    |-> FALSE])

CreateTokenFromEnv ==
    /\ fn.pc = "fromenv"
    /\ fn' = [fn EXCEPT !.pc = "createtoken", !.cto = Ptr(EnvOptions(fn.opts.val))]
    /\ UNCHANGED authVars

CreateTokenFromEnvTyped ==
    /\ fn.pc = "fromenv_typed"
    /\ fn' = [fn EXCEPT !.pc = "createtoken_typed",
                        !.cto = Ptr(Merge(EnvOptions(fn.opts.val),
                                          [type |-> "CreateTokenByPasswordOptions"]))]
    /\ UNCHANGED authVars

InitFromEnv ==
    /\ AuthIdle("C", NumUsers)
    /\ \E env \in Environments, start \in {"fromenv", "fromenv_typed"} :
          fn = FnStart(start, Ptr(env), NilPtr, NilPtr)

NextFromEnv ==
    \/ CreateTokenFromEnv
    \/ CreateTokenSend
    \/ CreateTokenAnswer
    \/ CreateTokenFromEnvTyped
    \/ CreateTokenTypedSend
    \/ CreateTokenTypedAnswer

SpecFromEnv == InitFromEnv /\ [][NextFromEnv]_vars

(***************************************************************************)
(* The Authenticator with one caller, under fairness.  The goroutines that *)
(* can take a step do not all stand still (the Go scheduler; time passes   *)
(* when all of them wait), and the answer to a request that was sent       *)
(* arrives.  Nothing makes a caller call a method.                         *)
(***************************************************************************)
InitOneCaller ==
    /\ \E r \in Revisions : AuthIdle(r, 1)
    /\ fn = NoCall

\* a step of the code that is not a call by a caller nor an answer
Scheduled ==
    \/ \E p \in Procs : LoginLock(p) \/ LoginStore(p)
    \/ \E g \in Goroutines : GoStart(g) \/ GoWait(g)
    \/ \E u \in Users :
          \/ GetTokenRead(u) \/ GetCatalogRead(u)
          \/ LogoutGetToken(u) \/ LogoutRead(u) \/ LogoutValue(u)
          \/ LogoutLock(u) \/ LogoutDrain(u) \/ LogoutClear(u)
          \/ ApiRead(u) \/ ApiCheck(u) \/ ApiHeader(u)
    \/ Tick

\* some step of Scheduled can be taken: a goroutine can run, or all of them
\* wait and an instant is still to come
CanStep ==
    /\ Running
    /\ \/ \E p \in Procs : Runnable(p)
       \/ Pending # {}

\* a step of the method that caller u is in
CallerStep(u) ==
    \/ LoginLock(u) \/ LoginStore(u)
    \/ GetTokenRead(u) \/ GetCatalogRead(u)
    \/ LogoutGetToken(u) \/ LogoutRead(u) \/ LogoutValue(u)
    \/ LogoutLock(u) \/ LogoutDrain(u) \/ LogoutClear(u)
    \/ ApiRead(u) \/ ApiCheck(u) \/ ApiHeader(u)

\* Weak fairness of Scheduled; strong fairness of each caller's own steps
\* (sync.RWMutex lets a goroutine that waits for it in, in the end, when it
\* is released again and again); both written out with their enabling
\* conditions.  Weak fairness of the arrival of the answers.
Fairness ==
    /\ ([]<>(~CanStep) \/ []<><<Scheduled>>_vars)
    /\ \A u \in Users :
          <>[](~(Running /\ Runnable(u))) \/ []<><<CallerStep(u)>>_vars
    /\ WF_vars(\E p \in Procs : LoginAnswer(p))
    /\ WF_vars(\E u \in Users : ApiAnswer(u))

SpecFair == InitOneCaller /\ [][Next]_vars /\ Fairness

(***************************************************************************)
(* Properties.                                                             *)
(***************************************************************************)
LoginPcs == {"login_http", "login_lock", "login_store"}

LogoutPcs ==
    {"logout_start", "logout_read", "logout_value", "logout_lock", "logout_drain",
     "logout_nested", "logout_nested_read", "logout_clear"}

\* C1: in every interleaving of Login (called by a caller or by the timer's
\* goroutine), Logout, GetToken and GetCatalog, each read of the stored token
\* pointer is made by a goroutine that holds the mutex, for reading or for
\* writing, and each write of it by one that holds the mutex for writing.
C1_TokenPointerGuarded == ~hist.unguarded

\* a timer-triggered Login waits for the mutex while a caller reads the
\* stored token under it, in revision C
C1_ReaderHoldsMutexWhileLoginWaits ==
    /\ rev = "C"
    /\ authToken # 0
    /\ \E u \in Users : pc[u] = "get_read" /\ u \in readers
    /\ \E g \in Goroutines : pc[g] = "login_lock"

\* the goroutines that wait for a timer to fire
PendingGoroutines ==
    {g \in Goroutines : pc[g] = "go_wait" /\ timers[loc[g].tm].state = "armed"}

\* C2: after any sequence of Login calls, by the callers or by the timer, at
\* most one re-authentication goroutine waits on a timer.
C2_OnePendingGoroutine == Cardinality(PendingGoroutines) <= 1

\* C3: once Logout has returned and until a caller calls Login again, no
\* token is stored: GetToken returns nil and PrepareRequest refuses every
\* authenticated call.
C3_NoTokenAfterLogout == hist.loggedOut => authToken = 0

\* a re-authentication is under way: a Login has been called and has not
\* returned, or a goroutine is about to call it
Reauthenticating ==
    \E p \in Procs :
        \/ pc[p] \in LoginPcs
        \/ pc[p] = "go_start"
        \/ pc[p] = "go_wait" /\ timers[loc[p].tm].state = "fired"

\* C4: between a successful Login and the next Logout the stored token has
\* not passed its expiry time, as long as the identity service has answered
\* every token request with a token.  (The time a re-authentication takes is
\* not held against the claim.)
C4_StoredTokenCurrent ==
    (/\ rev = "C"
     /\ authToken # 0
     /\ ExpiryParses(heap[authToken])
     /\ ~hist.refused
     /\ ~Reauthenticating
     /\ \A u \in Users : pc[u] \notin LogoutPcs)
    => heap[authToken].ExpiresAt.val.in > 0

\* C5: the timer Login arms for a token whose ExpiresAt parses fires before
\* the token expires, never after.
C5_TimerFiresBeforeExpiry ==
    (/\ authToken # 0
     /\ ExpiryParses(heap[authToken])
     /\ authTimer # 0
     /\ timers[authTimer].state = "armed")
    => timers[authTimer].rem <= heap[authToken].ExpiresAt.val.in

\* the goroutines a Login has started, up to the return of their own Login
Refreshing == {g \in Goroutines : pc[g] \in {"go_start", "go_wait"} \cup LoginPcs}

\* C6: the scope options of the Login the timer triggers are those of the
\* Login that armed the timer.
C6_RefreshKeepsScope ==
    \A g \in Refreshing : ScopeOf(loc[g].opts.val) = loc[g].armScope.val

\* C7: the Login the timer triggers asks for the new token with the token
\* method, and the credential is the value of the token the Authenticator
\* holds at that moment.
C7_RefreshByStoredToken ==
    \A g \in Goroutines :
        pc[g] = "login_http" => loc[g].method = "token" /\ loc[g].credStored

\* the method the priority of the claim gives for the options
PriorityMethod(o) ==
    IF ~IsNil(o.TokenID) /\ TrimSpace(o.TokenID.val) # <<>> THEN "token"
    ELSE IF ~IsNil(o.UserPassword) /\ TrimSpace(o.UserPassword.val) # <<>> THEN "password"
    ELSE IF /\ ~IsNil(o.AppCredentialID) /\ TrimSpace(o.AppCredentialID.val) # <<>>
            /\ ~IsNil(o.Secret) /\ TrimSpace(o.Secret.val) # <<>>
         THEN "application_credential"
    ELSE "none"

C9_RefusedCallReturnsError == hist.apiRefused => hist.apiError = ErrNoToken

\* the answer the claim is about: 201, X-Subject-Token, a token entity
CreatedAnswer(a) ==
    /\ a.sent
    /\ a.response.StatusCode = 201
    /\ ~IsNil(a.response.SubjectToken)
    /\ a.response.Body.kind = "token"

\* C10: when the identity service answers the token request with 201, an
\* X-Subject-Token header and a token entity, CreateToken returns a Token
\* that is not nil and whose Value is the value of the header, whatever the
\* credentials and the scope of the options.
C10_TokenValueIsSubjectToken ==
    (fn.pc \in {"returned", "panic"} /\ IsNil(fn.opts) /\ CreatedAnswer(fn.answer))
    => /\ fn.pc = "returned"
       /\ ~IsNil(fn.ret.val.token)
       /\ fn.ret.val.token.val.Value = fn.answer.response.SubjectToken

\* CreateToken has returned on such an answer to a request by password for a
\* token scoped to a project
C10_CreatedForScopedPassword ==
    /\ fn.pc = "returned"
    /\ IsNil(fn.opts)
    /\ CreatedAnswer(fn.answer)
    /\ fn.request.val.Auth.Identity.Methods = <<"password">>
    /\ fn.request.val.Auth.Scope.kind = "scope"

\* the answer the claim is about: a status of failure with an error entity
FailureAnswer(a) ==
    /\ a.sent
    /\ a.response.StatusCode >= 400
    /\ a.response.Body.kind = "error"

\* C11: when the identity service answers the token request with a status
\* of failure and an error entity, CreateToken returns, with a nil token and
\* the Result of that status.
C11_FailureReturnsNilToken ==
    (fn.pc \in {"returned", "panic"} /\ IsNil(fn.opts) /\ FailureAnswer(fn.answer))
    => /\ fn.pc = "returned"
       /\ IsNil(fn.ret.val.token)
       /\ ~IsNil(fn.ret.val.result)
       /\ fn.ret.val.result.val.Code = fn.answer.response.StatusCode

\* the scope the priority rules of the claim select
ProjectScope(id, name, domain) ==
    [kind |-> "scope", Project |-> Ptr([ID |-> id, Name |-> name, Domain |-> domain]),
     Domain |-> NilPtr]

DomainScope(id, name) ==
    [kind |-> "scope", Project |-> NilPtr, Domain |-> Ptr([ID |-> id, Name |-> name])]

PriorityScope(o) ==
    CASE NonBlank(o.ScopeProjectID) -> ProjectScope(o.ScopeProjectID, NilPtr, NilPtr)
      [] ~NonBlank(o.ScopeProjectID) /\ NonBlank(o.ScopeProjectName) ->
            ProjectScope(NilPtr, o.ScopeProjectName,
                         IF NonBlank(o.ScopeDomainID)
                         THEN Ptr([ID |-> o.ScopeDomainID, Name |-> NilPtr])
                         ELSE Ptr([ID |-> NilPtr, Name |-> o.ScopeDomainName]))
      [] OTHER ->
            IF NonBlank(o.ScopeDomainID) THEN DomainScope(o.ScopeDomainID, NilPtr)
            ELSE IF NonBlank(o.ScopeDomainName) THEN DomainScope(NilPtr, o.ScopeDomainName)
            ELSE IF o.UnscopedToken = Bool(TRUE) THEN [kind |-> "unscoped"]
            ELSE [kind |-> "none"]

\* C12: whatever the scope options, the auth.scope of the request entity
\* CreateToken sends is the one the priority rules select: project id, else
\* project name with its domain (by id, else by name), else domain id, else
\* domain name, else "unscoped" when UnscopedToken is true, else none.
C12_ScopeByPriority ==
    (~IsNil(fn.request) /\ IsNil(fn.opts))
    => fn.request.val.Auth.Scope = PriorityScope(fn.cto.val)

\* C13: whatever the scope options, the Scope built for the token request
\* never has both its Project and its Domain set.
C13_ProjectOrDomainNotBoth ==
    (~IsNil(fn.request) /\ fn.request.val.Auth.Scope.kind = "scope")
    => ~(/\ ~IsNil(fn.request.val.Auth.Scope.Project)
         /\ ~IsNil(fn.request.val.Auth.Scope.Domain))

\* a request is sent for options that name a project and a domain
C13_ProjectNameAndDomainGiven ==
    /\ fn.pc = "sent"
    /\ IsNil(fn.opts)
    /\ NonBlank(fn.cto.val.ScopeProjectName)
    /\ NonBlank(fn.cto.val.ScopeDomainID)
    /\ NonBlank(fn.cto.val.ScopeDomainName)
    /\ ~IsNil(fn.request.val.Auth.Scope.Project)

\* C14: for every status code, the Code of the Result NewResult returns is
\* the status code of the response.
C14_ResultCodeIsStatusCode ==
    (fn.pc = "done" /\ fn.method = "NewResult")
    => fn.ret.val.Code = fn.cto.val.StatusCode

\* C15: HandleResponse fills the output field tagged `header` only when the
\* response has that header: when the header is absent the pointer field is
\* left nil, and when it is present the field points to its value.
C15_HeaderFieldOnlyIfPresent ==
    (fn.pc = "done" /\ fn.method = "HandleResponse")
    => LET header == fn.cto.val.response.SubjectToken
           field  == fn.ret.val.output.SubjectToken
       IN  /\ IsNil(header) => IsNil(field)
           /\ (~IsNil(header) /\ fn.cto.val.response.Body.kind # "readerr") => field = header

\* the checker of the call is there and accepts the status of the response
Accepted == fn.cto.val.checker.given /\ fn.cto.val.response.StatusCode \in fn.cto.val.checker.values

\* C16: the Result Invoke returns has OK = true exactly when a checker was
\* given and accepts the status of the response; otherwise the response is
\* decoded into the failure value and the output struct is as it was.
C16_CheckerDecidesSuccess ==
    (fn.pc = "done" /\ fn.method = "Invoke")
    => LET r == fn.ret.val
       IN  /\ Accepted <=> (~r.panic /\ ~IsNil(r.val.result) /\ r.val.result.val.OK)
           /\ ~Accepted =>
                 /\ ~r.panic
                 /\ r.val.output = fn.cto.val.output
                 /\ (~IsNil(fn.cto.val.failure) /\ ~IsNil(r.val.result))
                        => r.val.failure.val.set

\* C17: the token request CreateTokenFromEnv sends authenticates by
\* password with OS_USERNAME, OS_PASSWORD and OS_USER_DOMAIN_NAME; it is
\* scoped to the project OS_PROJECT_NAME of the domain OS_PROJECT_DOMAIN_NAME
\* when both variables are not empty, and is explicitly unscoped otherwise.
C17_RequestFromEnvironment ==
    (~IsNil(fn.request) /\ ~IsNil(fn.opts))
    => LET env  == fn.opts.val
           auth == fn.request.val.Auth
       IN  /\ auth.Identity.Methods = <<"password">>
           /\ ~IsNil(auth.Identity.Password)
           /\ auth.Identity.Password.val.User.Name = String(env.OS_USERNAME)
           /\ auth.Identity.Password.val.User.Password = String(env.OS_PASSWORD)
           /\ auth.Identity.Password.val.User.Domain.Name = String(env.OS_USER_DOMAIN_NAME)
           /\ auth.Scope =
                 IF env.OS_PROJECT_NAME # <<>> /\ env.OS_PROJECT_DOMAIN_NAME # <<>>
                 THEN ProjectScope(NilPtr, String(env.OS_PROJECT_NAME),
                                   Ptr([ID |-> NilPtr,
                                        Name |-> String(env.OS_PROJECT_DOMAIN_NAME)]))
                 ELSE [kind |-> "unscoped"]

\* C18: Where returns a new Error with the pairs of the receiver plus the
\* new one, and does not touch the receiver: after any sequence of Where
\* calls the package-level errors carry the context they were declared with.
C18_WhereLeavesReceiver ==
    fn.method = "Where"
    => /\ Context(fn.cto.val, Success) = {<<StatusCodeKey, "200">>}
       /\ Context(fn.cto.val, ErrorInvalidInput) = {}
       /\ Context(fn.cto.val, ErrorBadRequest) = {<<StatusCodeKey, "400">>}
       /\ ~IsNil(fn.ret) =>
             LET r == fn.ret.val
             IN  /\ r.err.Err = r.recv.Err
                 /\ Context(fn.cto.val, r.err)
                        = {q \in r.before : q[1] # r.key} \cup {<<r.key, r.info>>}
                 /\ Context(fn.cto.val, r.recv) = r.before

\* Where has been called on ErrorBadRequest, which has a context, and then
\* on the Error that call returned
C18_WhereOnDeclaredAndReturned ==
    /\ fn.method = "Where"
    /\ ~IsNil(fn.ret)
    /\ fn.ret.val.recv.Err = ErrorBadRequest.Err
    /\ fn.ret.val.recv # ErrorBadRequest
    /\ Cardinality(Context(fn.cto.val, fn.ret.val.err)) = 3

\* C19: ZipString completes for every string and every length; for a
\* length of 3 or more the result has exactly that many characters, a prefix
\* of the string, three dots and a suffix of the string, and for a length of
\* 2 or less it is the empty string.
C19_ZipStringHasLength ==
    (fn.pc = "done" /\ fn.method = "ZipString")
    => LET s == fn.cto.val.s
           n == fn.cto.val.length
           r == fn.ret.val
       IN  /\ ~r.panic
           /\ n <= 2 => r.val = <<>>
           /\ n >= 3 =>
                 /\ Len(r.val) = n
                 /\ \E h \in 0 .. (n - 3) :
                       /\ h <= Len(s)
                       /\ (n - 3) - h <= Len(s)
                       /\ r.val = SubSeq(s, 1, h) \o Dots
                                  \o SubSeq(s, Len(s) - ((n - 3) - h) + 1, Len(s))

\* C20: a Logout called while the Authenticator holds a token returns,
\* whatever the refresh goroutine does meanwhile, and also when the timer has
\* fired and the goroutine has received from its channel.  (A panic that ends
\* the program is not held against the claim.)
C20_LogoutReturns ==
    \A u \in Users :
        (pc[u] = "logout_start" /\ authToken # 0) ~> (pc[u] = "idle" \/ ~Running)

\* C21: whatever a concurrent Logout does, the token value that an
\* authenticated PrepareRequest is about to write into X-Auth-Token is the
\* value it has checked, and is not nil.
C21_HeaderValueChecked ==
    \A u \in Users :
        pc[u] = "api_header" => ~IsNil(heap[loc[u].tok].Value)

\* C22: Logout calls that run at the same time do not fail: a Logout that
\* holds the mutex and is about to clear auth.token.Value finds auth.token
\* set, so that it clears it and returns nil.
C22_ConcurrentLogoutsReturn ==
    \A u \in Users :
        (pc[u] = "logout_clear" /\ rev # "A") => authToken # 0

\* the identity service has answered the token request of the Login under
\* way with a status that is not a success
Rejected ==
    /\ ~IsNil(fn.opts)
    /\ fn.answer.sent
    /\ fn.answer.response.StatusCode \notin CreateTokenSuccessCodes

\* C23: a Login whose credentials the identity service rejects ends by
\* returning an error to its caller: it neither panics nor returns nil.
C23_RejectedLoginReturnsError ==
    (Rejected /\ fn.pc \in {"done", "panic"})
        => (fn.pc = "done" /\ fn.out.val.outcome = "error")

\* auth.token, as the callers see it
StoredToken == IF authToken = 0 THEN NilPtr ELSE Ptr(heap[authToken])

\* auth.timer
StoredTimer == IF authTimer = 0 THEN NilPtr ELSE Ptr(timers[authTimer])

ArmedTimers == Cardinality({t \in TimerIds : timers[t].state = "armed"})

C25_NoTokenUnlessOK ==
    (/\ fn.pc = "done"
     /\ fn.method \in {"RetrieveToken", "ReadToken"}
     /\ fn.cto.val.response.StatusCode # 200)
    => LET r   == fn.ret.val
           inv == IF fn.method = "ReadToken"
                  THEN HandleResponseStruct(fn.cto.val.response, EmptyOutput)
                  ELSE HandleResponseOther(fn.cto.val.response, EmptyOutput)
       IN  /\ ~r.panic
           /\ IsNil(r.val.token)
           /\ r.val.result = inv.result
           /\ r.val.err = inv.err

====
